---------------------------- MODULE Spec2Model ----------------------------
(***************************************************************************)
(* Model of the arXiv OAI-PMH harvester: src/ingest/oai_harvest.py (run,   *)
(* fetch_batch, upload_raw_data) driven by src/main.py (main).             *)
(*                                                                         *)
(* One process is invoked again and again by an external scheduler.  Each  *)
(* invocation loads the checkpoint, opens the gzip artifact, follows the   *)
(* resumption-token chain page by page and exits with a process code.      *)
(* The checkpoint, the local artifact and the uploaded copy survive from   *)
(* one invocation to the next.                                             *)
(***************************************************************************)
EXTENDS Integers, Sequences, FiniteSets, TLC

(***************************************************************************)
(* Bounds of the model.                                                    *)
(***************************************************************************)
MaxPages == 3      \* longest token chain the server serves
MaxRecs == 1       \* most records retained from one page
MaxRuns == 2       \* invocations of the process in one behaviour
MaxBusy == 1       \* server-busy answers to one fetch_batch call of run
MaxDate == 2       \* dates from the epoch date (1) to today minus 2 days
MaxCategories == 2 \* length of ALL_CATEGORIES
MaxElems == 2      \* record elements in one answer of the server
UploadEvery == 2   \* UPLOAD_INTERVAL_BATCHES on the scale of the chains served

(***************************************************************************)
(* Program constants.                                                      *)
(***************************************************************************)
GH_ACTIONS_MAX_RUN_SECONDS == 20880
MAX_RETRIES == 3
BACKOFF_STEP == 30
DEFAULT_RETRY_AFTER == 30
RATE_LIMIT_SECONDS == 3
EXIT_CONTINUE == 2
EXIT_OK == 0
EXIT_FAILURE == 1

None == 0          \* Python None of a token: falsy, like the empty string
NoExit == -1       \* the process has not exited yet
NoHeader == -1     \* response without a Retry-After header

Min(a, b) == IF a < b THEN a ELSE b

(***************************************************************************)
(* The upstream corpus: chain[k] is the number of records page k yields    *)
(* after parsing.  A request without token answers page 1; the token       *)
(* handed out with page k is k and asks for page k+1; the last page comes  *)
(* without a token.  The corpora tried are chains of 1..MaxPages pages      *)
(* whose sizes cycle through 0..MaxRecs from any starting size (so that    *)
(* pages that retain nothing occur anywhere), chains of full pages, and    *)
(* the two pages of 3 and 1 records of the pagination example.             *)
(***************************************************************************)
PageSizes(m, s) == [k \in 1..m |-> IF s > MaxRecs THEN MaxRecs ELSE (k + s) % (MaxRecs + 1)]

ExampleChain == <<3, 1>>

Chains == {PageSizes(m, s) : m \in 1..MaxPages, s \in 0..(MaxRecs + 1)} \cup {ExampleChain}

PageOf(token) == token + 1

RecordsOf(ch, k) == [i \in 1..ch[k] |-> <<k, i>>]

TokenOf(ch, k) == IF k < Len(ch) THEN k ELSE None

RECURSIVE PagesUpTo(_, _)
PagesUpTo(ch, k) == IF k = 0 THEN <<>> ELSE PagesUpTo(ch, k - 1) \o RecordsOf(ch, k)

AllRecords(ch) == PagesUpTo(ch, Len(ch))

(***************************************************************************)
(* Checkpoint store (namespace "oai_harvest").  has = FALSE is the empty   *)
(* mapping of a cold start; StateGet is dict.get with a default.           *)
(***************************************************************************)
EmptyState == [has |-> FALSE, resumption_token |-> None, total_harvested |-> 0, batch_num |-> 0]

StateGet(st, key, default) == IF st.has THEN st[key] ELSE default

Checkpoint(token, total, batch) ==
    [has |-> TRUE, resumption_token |-> token, total_harvested |-> total, batch_num |-> batch]

(***************************************************************************)
(* The wall clock.  run() observes elapsed only through the comparison     *)
(* with the budget, so elapsed saturates at the budget, and the time a     *)
(* blocking call (get, time.sleep) takes on the host clock is either too   *)
(* short to matter or what is left of the budget.  The length asked of     *)
(* time.sleep is kept apart, in slept.                                     *)
(***************************************************************************)
Tick(e, d) == Min(e + d, GH_ACTIONS_MAX_RUN_SECONDS)

Latencies == {0, GH_ACTIONS_MAX_RUN_SECONDS}

RetryAfterHeaders == {NoHeader, 0, 3}

(***************************************************************************)
(* Answers that make fetch_batch raise a plain Exception: a status other   *)
(* than 200 and 503, and an OAI-PMH error element, whatever its code.      *)
(***************************************************************************)
FatalResponses == {"http_error", "noRecordsMatch", "badResumptionToken"}

(***************************************************************************)
(* nodes/papers.py: dates are numbered from the epoch date, 1, to today    *)
(* minus two days, MaxDate.                                                *)
(***************************************************************************)
Dates == 1..MaxDate

DatesDue == Dates

(***************************************************************************)
(* ingest/papers.py: the categories in the order of ALL_CATEGORIES, the    *)
(* paging constants of run(), and the numbers of papers the API may hold   *)
(* for a category: none, less than a batch, exactly a batch, more than     *)
(* run() takes.                                                            *)
(***************************************************************************)
Categories == 1..MaxCategories

ALL_CATEGORIES == [i \in 1..MaxCategories |-> i]

BATCH_SIZE == 2000
MAX_PER_CATEGORY == 10000
NoFile == -1
NoCategory == 0

CategorySizes == {0, 1, BATCH_SIZE, MAX_PER_CATEGORY + BATCH_SIZE}

(***************************************************************************)
(* parse_arxiv_record: what the parser reads of a record element.  A text  *)
(* is a sequence of parts, so that str.replace has something to do; a      *)
(* Python value that may be None is a record with the flag none.           *)
(***************************************************************************)
OAI_PREFIX == "oai:arXiv.org:"

PyNone == [none |-> TRUE, text |-> <<>>]

PyStr(t) == [none |-> FALSE, text |-> t]

NoElement == [present |-> FALSE, text |-> <<>>]

Element(t) == [present |-> TRUE, text |-> t]

IdentifierElems ==
    {NoElement, Element(<<>>), Element(<<OAI_PREFIX>>),
     Element(<<OAI_PREFIX, "0704.0001">>), Element(<<"0704.0001">>)}

RecordElems ==
    {[header |-> FALSE, status |-> "", identifier |-> NoElement, metadata |-> m] :
        m \in BOOLEAN}
    \cup
    {[header |-> TRUE, status |-> st, identifier |-> i, metadata |-> m] :
        st \in {"", "deleted"}, i \in IdentifierElems, m \in BOOLEAN}

Answers == UNION {[1..n -> RecordElems] : n \in 0..MaxElems}

VARIABLES
    chain,              \* upstream corpus (never changes: no new data)
    cloud,              \* is_cloud_mode()
    state,              \* the saved checkpoint
    file_exists,        \* output_file.exists()
    file,               \* records in arxiv_metadata.jsonl.gz
    r2_exists,          \* the uploaded object exists
    r2,                 \* records in the uploaded object
    runs,               \* invocations so far
    pc,                 \* position of the process
    args,               \* parsed command line
    resumption_token, total_harvested, batch_num, needs_continuation,
    elapsed,            \* time.time() - start_time
    records, next_token,\* result of the last fetch_batch
    attempt,            \* loop variable of fetch_batch
    busy,               \* depth of the busy recursion of fetch_batch
    retry_after,        \* sleep decided by a busy response
    slept,              \* seconds of time.sleep since the last get()
    sleeps,             \* backoff sleeps of this frame of fetch_batch
    fails,              \* transport failures since run() called fetch_batch
    busies,             \* busy answers since run() called fetch_batch
    response,           \* what the last get() brought
    retry_header,       \* Retry-After header of the last busy answer
    error,              \* exception in flight
    main_flag,          \* needs_continuation of main()
    exit_code,          \* exit code of the last invocation
    outcome,            \* how the last harvest run ended
    start,              \* checkpoint and artifact as the run found them
    log,                \* what this invocation did, batch by batch
    confirmed,          \* records written and then checkpointed, by any run
    clean,              \* no harvest run has raised so far
    fetched_dates,      \* key fetched_dates of the checkpoint oai_harvest
    transformed_dates,  \* key transformed_dates of the checkpoint papers
    bad_dates,          \* dates whose raw rows fail validate()
    arxiv_papers,       \* dates whose rows are in the table arxiv_papers
    truns,              \* calls of nodes/papers.run so far
    tpc,                \* position of nodes/papers.run
    fetched, transformed, new_dates, table,
    tstart,             \* checkpoint and table as the transform found them
    tlog,               \* how the calls of the transform ended
    feed,               \* papers the API holds for each category
    arxiv_state,        \* key completed of the checkpoint arxiv
    raw_saved,          \* papers in the raw file of each category
    cruns,              \* calls of ingest/papers.run so far
    cpc,                \* position of ingest/papers.run
    completed, pending, category, all_papers, start_index,
    record_elems,       \* root.findall('.//oai:record') of one answer
    cursor,             \* record elements the loop of fetch_batch has seen
    parsed,             \* the list records of fetch_batch
    origin,             \* positions of the elements the records came from
    ppc                 \* position of the parse loop

harvestv == <<chain, cloud, state, file_exists, file, r2_exists, r2, runs, pc, args,
              resumption_token, total_harvested, batch_num, needs_continuation,
              elapsed, records, next_token, attempt, busy, retry_after, slept,
              sleeps, fails, busies, response, retry_header, error, main_flag, exit_code, outcome, start, log, confirmed, clean>>

transformv == <<fetched_dates, transformed_dates, bad_dates, arxiv_papers, truns, tpc,
                fetched, transformed, new_dates, table, tstart, tlog>>

categoryv == <<feed, arxiv_state, raw_saved, cruns, cpc, completed, pending, category,
               all_papers, start_index>>

parserv == <<record_elems, cursor, parsed, origin, ppc>>

aside == <<transformv, categoryv, parserv>>

vars == <<harvestv, transformv, categoryv, parserv>>

env == <<chain, cloud>>
store == <<state, file_exists, file, r2_exists, r2>>
locals == <<resumption_token, total_harvested, batch_num, needs_continuation>>
fetchv == <<records, next_token, attempt, busy, retry_after, slept>>
hist == <<confirmed, clean>>
fhist == <<sleeps, fails, busies, response, retry_header>>

Ev(e, t) == [ev |-> e, tok |-> t]

(***************************************************************************)
(* Pieces of run(), fetch_batch() and main() that are functions of their   *)
(* arguments.  Where a property below depends on a piece, the piece is     *)
(* preceded by a faulty variant of it (wrong open mode, lost write, wrong  *)
(* comparison, ...) under which the property has to fail.                  *)
(***************************************************************************)
OpenModeTruncates(token) == "wb"

OpenMode(token) == IF token # None THEN "ab" ELSE "wb"

FileAfterOpen(mode, contents) == IF mode = "ab" THEN contents ELSE <<>>

FileAfterWriteNothing(contents, recs) == contents

FileAfterWritePrepends(contents, recs) == recs \o contents

FileAfterWrite(contents, recs) == contents \o recs

BudgetNeverReached(e) == e > GH_ACTIONS_MAX_RUN_SECONDS

BudgetExhausted(e) == e >= GH_ACTIONS_MAX_RUN_SECONDS

RetriesLeftOfTwo(att) == att < 1

RetriesLeft(att) == att < MAX_RETRIES - 1

WaitTimeFlat(att) == BACKOFF_STEP

WaitTime(att) == BACKOFF_STEP * (att + 1)

RetryAfterIgnoresHeader(header) == DEFAULT_RETRY_AFTER

RetryAfter(header) == IF header = NoHeader THEN DEFAULT_RETRY_AFTER ELSE header

ProgressCheckpointCountsFailed(token, total, batch) == Checkpoint(token, total, batch)

ProgressCheckpoint(token, total, batch) == Checkpoint(token, total, batch - 1)

BatchCheckpointLosesToken(token, total, batch) == Checkpoint(None, total, batch)

BatchCheckpointKeepsToken(token, total, batch) == Checkpoint(resumption_token, total, batch)

BatchCheckpoint(token, total, batch) == Checkpoint(token, total, batch)

ExitCodeAlwaysOk(flag) == EXIT_OK

ExitCode(flag) == IF flag THEN EXIT_CONTINUE ELSE EXIT_OK

HarvestInit ==
    /\ chain \in Chains
    /\ cloud \in BOOLEAN
    /\ state = EmptyState
    /\ file_exists = FALSE
    /\ file = <<>>
    /\ r2_exists = FALSE
    /\ r2 = <<>>
    /\ runs = 0
    /\ pc = "idle"
    /\ args = [transform_only |-> FALSE]
    /\ resumption_token = None
    /\ total_harvested = 0
    /\ batch_num = 0
    /\ needs_continuation = FALSE
    /\ elapsed = 0
    /\ records = <<>>
    /\ next_token = None
    /\ attempt = 0
    /\ busy = 0
    /\ retry_after = 0
    /\ slept = 0
    /\ sleeps = <<>>
    /\ fails = 0
    /\ busies = 0
    /\ response = "none"
    /\ retry_header = NoHeader
    /\ error = "none"
    /\ main_flag = FALSE
    /\ exit_code = NoExit
    /\ outcome = "none"
    /\ start = [state |-> EmptyState, file |-> <<>>, after |-> "none"]
    /\ log = <<>>
    /\ confirmed = {}
    /\ clean = TRUE

TransformAtRest ==
    /\ fetched_dates = {}
    /\ transformed_dates = {}
    /\ bad_dates = {}
    /\ arxiv_papers = {}
    /\ truns = 0
    /\ tpc = "idle"
    /\ fetched = {}
    /\ transformed = {}
    /\ new_dates = {}
    /\ table = {}
    /\ tstart = [transformed_dates |-> {}, arxiv_papers |-> {}]
    /\ tlog = <<>>

CategoriesAtRest ==
    /\ feed = [c \in Categories |-> 0]
    /\ arxiv_state = {}
    /\ raw_saved = [c \in Categories |-> NoFile]
    /\ cruns = 0
    /\ cpc = "idle"
    /\ completed = {}
    /\ pending = <<>>
    /\ category = NoCategory
    /\ all_papers = 0
    /\ start_index = 0

ParserAtRest ==
    /\ record_elems = <<>>
    /\ cursor = 0
    /\ parsed = <<>>
    /\ origin = <<>>
    /\ ppc = "idle"

Init ==
    /\ HarvestInit
    /\ TransformAtRest
    /\ CategoriesAtRest
    /\ ParserAtRest

(***************************************************************************)
(* main(): the scheduler starts the process with some command line.  Of    *)
(* the command line the state keeps --transform-only; --ingest-only only   *)
(* decides whether main() prints the transform banner.                     *)
(***************************************************************************)
Invoke(t) ==
    /\ pc = "idle"
    /\ runs < MaxRuns
    /\ runs' = runs + 1
    /\ args' = [transform_only |-> t]
    /\ main_flag' = FALSE
    /\ exit_code' = NoExit
    /\ log' = <<>>
    /\ pc' = "validate"
    /\ UNCHANGED <<env, store, locals, elapsed, fetchv, error, outcome, start>>
    /\ UNCHANGED hist
    /\ UNCHANGED fhist
    /\ UNCHANGED aside

ValidateOk ==
    /\ pc = "validate"
    /\ pc' = IF ~args.transform_only THEN "run_begin" ELSE "main_exit"
    /\ UNCHANGED <<env, store, runs, args, locals, elapsed, fetchv, error,
                   main_flag, exit_code, outcome, start, log>>
    /\ UNCHANGED hist
    /\ UNCHANGED fhist
    /\ UNCHANGED aside

ValidateRaises ==
    /\ pc = "validate"
    /\ log' = Append(log, Ev("raise", None))
    /\ exit_code' = EXIT_FAILURE
    /\ pc' = "idle"
    /\ UNCHANGED <<env, store, runs, args, locals, elapsed, fetchv, error,
                   main_flag, outcome, start>>
    /\ UNCHANGED hist
    /\ UNCHANGED fhist
    /\ UNCHANGED aside

(***************************************************************************)
(* run(), up to the loop: load the checkpoint and open the artifact.       *)
(***************************************************************************)
RunBegin ==
    /\ pc = "run_begin"
    /\ elapsed' = 0
    /\ resumption_token' = StateGet(state, "resumption_token", None)
    /\ total_harvested' = StateGet(state, "total_harvested", 0)
    /\ batch_num' = StateGet(state, "batch_num", 0)
    /\ file' = FileAfterOpen(OpenMode(resumption_token'), file)
    /\ file_exists' = TRUE
    /\ needs_continuation' = FALSE
    /\ start' = [state |-> state, file |-> file, after |-> outcome]
    /\ outcome' = "running"
    /\ pc' = "check"
    /\ UNCHANGED <<env, state, r2_exists, r2, runs, args, fetchv, error, main_flag,
                   exit_code, log>>
    /\ UNCHANGED hist
    /\ UNCHANGED fhist
    /\ UNCHANGED aside

(***************************************************************************)
(* The loop of run(): budget check, then the next batch.                   *)
(***************************************************************************)
BudgetStop ==
    /\ pc = "check"
    /\ BudgetExhausted(elapsed)
    /\ needs_continuation' = TRUE
    /\ outcome' = "budget"
    /\ pc' = "final_upload"
    /\ UNCHANGED <<env, store, runs, args, resumption_token, total_harvested, batch_num,
                   elapsed, fetchv, error, main_flag, exit_code, start, log>>
    /\ UNCHANGED hist
    /\ UNCHANGED fhist
    /\ UNCHANGED aside

NextBatch ==
    /\ pc = "check"
    /\ ~BudgetExhausted(elapsed)
    /\ batch_num' = batch_num + 1
    /\ log' = Append(log, Ev("fetch_batch", resumption_token))
    /\ pc' = "fetch"
    /\ UNCHANGED <<env, store, runs, args, resumption_token, total_harvested,
                   needs_continuation, elapsed, fetchv, error, main_flag, exit_code,
                   outcome, start>>
    /\ UNCHANGED hist
    /\ sleeps' = <<>>
    /\ fails' = 0
    /\ busies' = 0
    /\ response' = "none"
    /\ retry_header' = NoHeader
    /\ UNCHANGED aside

(***************************************************************************)
(* fetch_batch(): the retry loop around get(), the busy recursion, the     *)
(* error classification and the parse of a good answer.  The frame of the  *)
(* call (attempt, retry_after, depth of the recursion) is gone when the    *)
(* call returns or raises.                                                 *)
(***************************************************************************)
FetchEnter ==
    /\ pc = "fetch"
    /\ attempt' = 0
    /\ pc' = "get"
    /\ UNCHANGED <<env, store, runs, args, locals, elapsed, records, next_token, busy,
                   retry_after, slept, error, main_flag, exit_code, outcome, start, log>>
    /\ UNCHANGED hist
    /\ sleeps' = <<>>
    /\ UNCHANGED <<fails, busies, response, retry_header>>
    /\ UNCHANGED aside

GetTransportError(d) ==
    /\ pc = "get"
    /\ elapsed' = Tick(elapsed, d)
    /\ slept' = 0
    /\ IF RetriesLeft(attempt)
         THEN /\ pc' = "backoff"
              /\ UNCHANGED <<error, attempt, busy>>
         ELSE /\ pc' = "except"
              /\ error' = "transient"
              /\ attempt' = 0
              /\ busy' = 0
    /\ UNCHANGED <<env, store, runs, args, locals, records, next_token, retry_after,
                   main_flag, exit_code, outcome, start, log>>
    /\ UNCHANGED hist
    /\ fails' = fails + 1
    /\ response' = "transport"
    /\ UNCHANGED <<sleeps, busies, retry_header>>
    /\ UNCHANGED aside

Backoff(d) ==
    /\ pc = "backoff"
    /\ slept' = slept + WaitTime(attempt)
    /\ elapsed' = Tick(elapsed, d)
    /\ attempt' = attempt + 1
    /\ pc' = "get"
    /\ UNCHANGED <<env, store, runs, args, locals, records, next_token, busy,
                   retry_after, error, main_flag, exit_code, outcome, start, log>>
    /\ UNCHANGED hist
    /\ sleeps' = Append(sleeps, WaitTime(attempt))
    /\ UNCHANGED <<fails, busies, response, retry_header>>
    /\ UNCHANGED aside

GetBusy(d, h) ==
    /\ pc = "get"
    /\ busy < MaxBusy
    /\ elapsed' = Tick(elapsed, d)
    /\ slept' = 0
    /\ retry_after' = RetryAfter(h)
    /\ pc' = "busy_wait"
    /\ UNCHANGED <<env, store, runs, args, locals, records, next_token, attempt, busy,
                   error, main_flag, exit_code, outcome, start, log>>
    /\ UNCHANGED hist
    /\ busies' = busies + 1
    /\ response' = "busy"
    /\ retry_header' = h
    /\ UNCHANGED <<sleeps, fails>>
    /\ UNCHANGED aside

BusyWait(d) ==
    /\ pc = "busy_wait"
    /\ slept' = slept + retry_after
    /\ elapsed' = Tick(elapsed, d)
    /\ busy' = busy + 1
    /\ retry_after' = 0
    /\ pc' = "fetch"
    /\ UNCHANGED <<env, store, runs, args, locals, records, next_token, attempt,
                   error, main_flag, exit_code, outcome, start, log>>
    /\ UNCHANGED hist
    /\ retry_header' = NoHeader
    /\ UNCHANGED <<sleeps, fails, busies, response>>
    /\ UNCHANGED aside

GetFatal(d, kind) ==
    /\ pc = "get"
    /\ elapsed' = Tick(elapsed, d)
    /\ slept' = 0
    /\ error' = "fatal"
    /\ attempt' = 0
    /\ busy' = 0
    /\ pc' = "except"
    /\ UNCHANGED <<env, store, runs, args, locals, records, next_token, retry_after,
                   main_flag, exit_code, outcome, start, log>>
    /\ UNCHANGED hist
    /\ response' = kind
    /\ UNCHANGED <<sleeps, fails, busies, retry_header>>
    /\ UNCHANGED aside

GetOk(d) ==
    /\ pc = "get"
    /\ elapsed' = Tick(elapsed, d)
    /\ slept' = 0
    /\ records' = RecordsOf(chain, PageOf(resumption_token))
    /\ next_token' = TokenOf(chain, PageOf(resumption_token))
    /\ attempt' = 0
    /\ busy' = 0
    /\ log' = Append(log, Ev("fetched", PageOf(resumption_token)))
    /\ pc' = "write"
    /\ UNCHANGED <<env, store, runs, args, locals, retry_after, error, main_flag,
                   exit_code, outcome, start>>
    /\ UNCHANGED hist
    /\ response' = "ok"
    /\ UNCHANGED <<sleeps, fails, busies, retry_header>>
    /\ UNCHANGED aside

(***************************************************************************)
(* run(): write the batch, save the checkpoint, stop or go on.             *)
(***************************************************************************)
WriteRecords ==
    /\ pc = "write"
    /\ file' = FileAfterWrite(file, records)
    /\ total_harvested' = total_harvested + Len(records)
    /\ log' = Append(log, Ev("write", Len(records)))
    /\ pc' = "save"
    /\ UNCHANGED <<env, state, file_exists, r2_exists, r2, runs, args, resumption_token,
                   batch_num, needs_continuation, elapsed, fetchv, error, main_flag,
                   exit_code, outcome, start>>
    /\ UNCHANGED hist
    /\ sleeps' = <<>>
    /\ fails' = 0
    /\ busies' = 0
    /\ response' = "none"
    /\ UNCHANGED retry_header
    /\ UNCHANGED aside

SaveProgress ==
    /\ pc = "save"
    /\ state' = BatchCheckpoint(next_token, total_harvested, batch_num)
    /\ log' = Append(log, Ev("save_state", next_token))
    /\ confirmed' = confirmed \cup {records[i] : i \in 1..Len(records)}
    /\ UNCHANGED clean
    /\ IF next_token = None
         THEN /\ outcome' = "done"
              /\ pc' = "final_upload"
              /\ UNCHANGED resumption_token
         ELSE /\ resumption_token' = next_token
              /\ pc' = "rate_sleep"
              /\ UNCHANGED outcome
    /\ UNCHANGED <<env, file_exists, file, r2_exists, r2, runs, args, total_harvested,
                   batch_num, needs_continuation, elapsed, fetchv, error, main_flag,
                   exit_code, start>>
    /\ UNCHANGED fhist
    /\ UNCHANGED aside

RateSleep(d) ==
    /\ pc = "rate_sleep"
    /\ slept' = slept + RATE_LIMIT_SECONDS
    /\ elapsed' = Tick(elapsed, d)
    /\ pc' = "check"
    /\ UNCHANGED <<env, store, runs, args, locals, records, next_token, attempt, busy,
                   retry_after, error, main_flag, exit_code, outcome, start, log>>
    /\ UNCHANGED hist
    /\ UNCHANGED fhist
    /\ UNCHANGED aside

(***************************************************************************)
(* run(): the two except clauses around fetch_batch.                       *)
(***************************************************************************)
ExceptTransient ==
    /\ pc = "except"
    /\ error = "transient"
    /\ state' = ProgressCheckpoint(resumption_token, total_harvested, batch_num)
    /\ log' = Append(log, Ev("save_state", resumption_token))
    /\ needs_continuation' = TRUE
    /\ error' = "none"
    /\ outcome' = "transient"
    /\ pc' = "final_upload"
    /\ UNCHANGED <<env, file_exists, file, r2_exists, r2, runs, args, resumption_token,
                   total_harvested, batch_num, elapsed, fetchv, main_flag, exit_code, start>>
    /\ UNCHANGED hist
    /\ sleeps' = <<>>
    /\ fails' = 0
    /\ busies' = 0
    /\ UNCHANGED <<response, retry_header>>
    /\ UNCHANGED aside

ExceptFatal ==
    /\ pc = "except"
    /\ error = "fatal"
    /\ state' = ProgressCheckpoint(resumption_token, total_harvested, batch_num)
    /\ log' = Append(log, Ev("save_state", resumption_token))
    /\ outcome' = "fatal"
    /\ pc' = "fatal_upload"
    /\ UNCHANGED <<env, file_exists, file, r2_exists, r2, runs, args, locals, elapsed,
                   fetchv, error, main_flag, exit_code, start>>
    /\ UNCHANGED hist
    /\ sleeps' = <<>>
    /\ fails' = 0
    /\ busies' = 0
    /\ UNCHANGED <<response, retry_header>>
    /\ UNCHANGED aside

(***************************************************************************)
(* upload_raw_data(): skipped outside cloud mode or without a file,        *)
(* otherwise the object in the bucket becomes a copy of the file.  In the  *)
(* fatal clause the file is closed and uploaded before the raise.          *)
(***************************************************************************)
UploadsWhenLocal(is_cloud, exists) == ~is_cloud /\ exists

Uploads(is_cloud, exists) == is_cloud /\ exists

UploadRawData ==
    IF Uploads(cloud, file_exists)
      THEN r2_exists' = TRUE /\ r2' = file
      ELSE UNCHANGED <<r2_exists, r2>>

FatalUpload ==
    /\ pc = "fatal_upload"
    /\ log' = Append(log, Ev("upload_raw_data", total_harvested))
    /\ UploadRawData
    /\ pc' = "raise"
    /\ UNCHANGED <<env, state, file_exists, file, runs, args, locals, elapsed, fetchv,
                   error, main_flag, exit_code, outcome, start>>
    /\ UNCHANGED hist
    /\ UNCHANGED fhist
    /\ UNCHANGED aside

FinalUpload ==
    /\ pc = "final_upload"
    /\ log' = Append(log, Ev("upload_raw_data", total_harvested))
    /\ UploadRawData
    /\ pc' = "return"
    /\ UNCHANGED <<env, state, file_exists, file, runs, args, locals, elapsed, fetchv,
                   error, main_flag, exit_code, outcome, start>>
    /\ UNCHANGED hist
    /\ UNCHANGED fhist
    /\ UNCHANGED aside

(***************************************************************************)
(* The ends of run() and of main().  The memory of the process is gone     *)
(* when it exits; what stays are the stores, the command line and the      *)
(* exit code the scheduler saw.                                            *)
(***************************************************************************)
ProcessGone ==
    /\ resumption_token' = None
    /\ total_harvested' = 0
    /\ batch_num' = 0
    /\ needs_continuation' = FALSE
    /\ elapsed' = 0
    /\ records' = <<>>
    /\ next_token' = None
    /\ attempt' = 0
    /\ busy' = 0
    /\ retry_after' = 0
    /\ slept' = 0
    /\ sleeps' = <<>>
    /\ fails' = 0
    /\ busies' = 0
    /\ response' = "none"
    /\ retry_header' = NoHeader
    /\ error' = "none"

Raise ==
    /\ pc = "raise"
    /\ log' = Append(log, Ev("raise", None))
    /\ exit_code' = EXIT_FAILURE
    /\ pc' = "idle"
    /\ ProcessGone
    /\ clean' = FALSE
    /\ UNCHANGED confirmed
    /\ UNCHANGED <<env, store, runs, args, main_flag, outcome, start>>
    /\ UNCHANGED aside

Return ==
    /\ pc = "return"
    /\ log' = Append(log, Ev("return", None))
    /\ main_flag' = needs_continuation
    /\ pc' = "main_exit"
    /\ UNCHANGED <<env, store, runs, args, locals, elapsed, fetchv, error, exit_code,
                   outcome, start>>
    /\ UNCHANGED hist
    /\ UNCHANGED fhist
    /\ UNCHANGED aside

MainExit ==
    /\ pc = "main_exit"
    /\ exit_code' = ExitCode(main_flag)
    /\ pc' = "idle"
    /\ ProcessGone
    /\ UNCHANGED <<env, store, runs, args, main_flag, outcome, start, log>>
    /\ UNCHANGED hist
    /\ UNCHANGED aside

Next ==
    \/ \E t \in BOOLEAN : Invoke(t)
    \/ ValidateOk
    \/ ValidateRaises
    \/ RunBegin
    \/ BudgetStop
    \/ NextBatch
    \/ FetchEnter
    \/ \E d \in Latencies : GetTransportError(d)
    \/ \E d \in Latencies : Backoff(d)
    \/ \E d \in Latencies, h \in RetryAfterHeaders : GetBusy(d, h)
    \/ \E d \in Latencies : BusyWait(d)
    \/ \E d \in Latencies, kind \in FatalResponses : GetFatal(d, kind)
    \/ \E d \in Latencies : GetOk(d)
    \/ WriteRecords
    \/ SaveProgress
    \/ \E d \in Latencies : RateSleep(d)
    \/ ExceptTransient
    \/ ExceptFatal
    \/ FatalUpload
    \/ FinalUpload
    \/ Raise
    \/ Return
    \/ MainExit

Spec == Init /\ [][Next]_vars


(***************************************************************************)
(* The harvest against a server that may answer busy to every request.     *)
(* Line 139 calls fetch_batch again for every busy answer, without a       *)
(* count: beyond the MaxBusy answers that GetBusy counts, the answer, the  *)
(* sleep and the call are one step that leaves the counters as they are.   *)
(* The process takes its steps as long as it has one to take.              *)
(***************************************************************************)
GetBusyAgain(d, h) ==
    /\ pc = "get"
    /\ busy = MaxBusy
    /\ fails = 0
    /\ elapsed' = Tick(elapsed, d)
    /\ slept' = RetryAfter(h)
    /\ response' = "busy"
    /\ pc' = "fetch"
    /\ UNCHANGED <<env, store, runs, args, locals, records, next_token, attempt, busy,
                   retry_after, error, main_flag, exit_code, outcome, start, log>>
    /\ UNCHANGED hist
    /\ UNCHANGED <<sleeps, fails, busies, retry_header>>
    /\ UNCHANGED aside

NextBusyServer ==
    \/ Next
    \/ \E d \in Latencies, h \in RetryAfterHeaders : GetBusyAgain(d, h)

SpecBusyServer == Init /\ [][NextBusyServer]_vars /\ WF_vars(NextBusyServer)

(***************************************************************************)
(* The harvest driven to completion.  main() exits with EXIT_CONTINUE when *)
(* run() returns needs_continuation, and the scheduler starts the process  *)
(* again, with the same command line, for as long as it does; the          *)
(* environment is valid and the server gives no fatal answer.  The process *)
(* takes its steps as long as it has one to take, and a request that is    *)
(* sent again and again is answered successfully in the end.               *)
(***************************************************************************)
FirstInvoke ==
    /\ runs = 0
    /\ Invoke(FALSE)

Reinvoke ==
    /\ pc = "idle"
    /\ runs >= 1
    /\ exit_code = EXIT_CONTINUE
    /\ main_flag' = FALSE
    /\ exit_code' = NoExit
    /\ log' = <<>>
    /\ pc' = "validate"
    /\ UNCHANGED <<env, store, runs, args, locals, elapsed, fetchv, error, outcome, start>>
    /\ UNCHANGED hist
    /\ UNCHANGED fhist
    /\ UNCHANGED aside

NextReinvoked ==
    \/ FirstInvoke
    \/ Reinvoke
    \/ ValidateOk
    \/ RunBegin
    \/ BudgetStop
    \/ NextBatch
    \/ FetchEnter
    \/ \E d \in Latencies : GetTransportError(d)
    \/ \E d \in Latencies : Backoff(d)
    \/ \E d \in Latencies, h \in RetryAfterHeaders : GetBusy(d, h)
    \/ \E d \in Latencies : BusyWait(d)
    \/ \E d \in Latencies : GetOk(d)
    \/ WriteRecords
    \/ SaveProgress
    \/ \E d \in Latencies : RateSleep(d)
    \/ ExceptTransient
    \/ FinalUpload
    \/ Return
    \/ MainExit

SpecReinvoked ==
    /\ Init
    /\ [][NextReinvoked]_vars
    /\ WF_vars(NextReinvoked)
    /\ SF_vars(\E d \in Latencies : GetOk(d))

(***************************************************************************)
(* nodes/papers.py.  The pieces of run() that are functions of their       *)
(* arguments: the dates to process, the verdict of test() on a table, and  *)
(* the merge of a table into arxiv_papers by id.                           *)
(***************************************************************************)
NewDatesAll(fetched_set, transformed_set) == fetched_set

NewDates(fetched_set, transformed_set) == fetched_set \ transformed_set

ValidationNeverRaises(tbl, bad) == FALSE

ValidationRaises(tbl, bad) == tbl \cap bad # {}

Merge(delta, tbl) == delta \cup tbl

TransformEntry(out) ==
    [out |-> out, dates |-> new_dates,
     before |-> tstart.transformed_dates, after |-> transformed_dates,
     before_table |-> tstart.arxiv_papers, after_table |-> arxiv_papers]

TransformGone ==
    /\ fetched' = {}
    /\ transformed' = {}
    /\ new_dates' = {}
    /\ table' = {}

TransformBegin ==
    /\ tpc = "idle"
    /\ truns < MaxRuns
    /\ truns' = truns + 1
    /\ fetched' = fetched_dates
    /\ transformed' = transformed_dates
    /\ new_dates' = NewDates(fetched_dates, transformed_dates)
    /\ tstart' = [transformed_dates |-> transformed_dates, arxiv_papers |-> arxiv_papers]
    /\ tpc' = "diff"
    /\ UNCHANGED <<fetched_dates, transformed_dates, bad_dates, arxiv_papers, table, tlog>>
    /\ UNCHANGED <<harvestv, categoryv, parserv>>

NothingNew ==
    /\ tpc = "diff"
    /\ new_dates = {}
    /\ tlog' = Append(tlog, TransformEntry("noop"))
    /\ tpc' = "idle"
    /\ TransformGone
    /\ UNCHANGED <<fetched_dates, transformed_dates, bad_dates, arxiv_papers, truns, tstart>>
    /\ UNCHANGED <<harvestv, categoryv, parserv>>

Query ==
    /\ tpc = "diff"
    /\ new_dates # {}
    /\ table' = new_dates
    /\ tpc' = "test"
    /\ UNCHANGED <<fetched_dates, transformed_dates, bad_dates, arxiv_papers, truns,
                   fetched, transformed, new_dates, tstart, tlog>>
    /\ UNCHANGED <<harvestv, categoryv, parserv>>

TestRaises ==
    /\ tpc = "test"
    /\ ValidationRaises(table, bad_dates)
    /\ tlog' = Append(tlog, TransformEntry("raised"))
    /\ tpc' = "idle"
    /\ TransformGone
    /\ UNCHANGED <<fetched_dates, transformed_dates, bad_dates, arxiv_papers, truns, tstart>>
    /\ UNCHANGED <<harvestv, categoryv, parserv>>

TestPasses ==
    /\ tpc = "test"
    /\ ~ValidationRaises(table, bad_dates)
    /\ tpc' = "upload"
    /\ UNCHANGED <<fetched_dates, transformed_dates, bad_dates, arxiv_papers, truns,
                   fetched, transformed, new_dates, table, tstart, tlog>>
    /\ UNCHANGED <<harvestv, categoryv, parserv>>

UploadData ==
    /\ tpc = "upload"
    /\ arxiv_papers' = Merge(arxiv_papers, table)
    /\ tpc' = "save"
    /\ UNCHANGED <<fetched_dates, transformed_dates, bad_dates, truns,
                   fetched, transformed, new_dates, table, tstart, tlog>>
    /\ UNCHANGED <<harvestv, categoryv, parserv>>

UploadDataRaises ==
    /\ tpc = "upload"
    /\ tlog' = Append(tlog, TransformEntry("upload_raised"))
    /\ tpc' = "idle"
    /\ TransformGone
    /\ UNCHANGED <<fetched_dates, transformed_dates, bad_dates, arxiv_papers, truns, tstart>>
    /\ UNCHANGED <<harvestv, categoryv, parserv>>

SaveTransformState ==
    /\ tpc = "save"
    /\ transformed' = transformed \cup new_dates
    /\ transformed_dates' = transformed'
    /\ tpc' = "sync"
    /\ UNCHANGED <<fetched_dates, bad_dates, arxiv_papers, truns,
                   fetched, new_dates, table, tstart, tlog>>
    /\ UNCHANGED <<harvestv, categoryv, parserv>>

SyncMetadata ==
    /\ tpc = "sync"
    /\ tlog' = Append(tlog, TransformEntry("done"))
    /\ tpc' = "idle"
    /\ TransformGone
    /\ UNCHANGED <<fetched_dates, transformed_dates, bad_dates, arxiv_papers, truns, tstart>>
    /\ UNCHANGED <<harvestv, categoryv, parserv>>

(***************************************************************************)
(* The transform on its own: the two checkpoints and the raw data are as   *)
(* the store holds them when run() is called, the harvester is at rest.    *)
(***************************************************************************)
InitTransform ==
    /\ HarvestInit
    /\ chain = ExampleChain
    /\ cloud = FALSE
    /\ CategoriesAtRest
    /\ ParserAtRest
    /\ fetched_dates \in SUBSET Dates
    /\ transformed_dates \in SUBSET Dates
    /\ bad_dates \in SUBSET Dates
    /\ arxiv_papers = transformed_dates
    /\ truns = 0
    /\ tpc = "idle"
    /\ fetched = {}
    /\ transformed = {}
    /\ new_dates = {}
    /\ table = {}
    /\ tstart = [transformed_dates |-> transformed_dates, arxiv_papers |-> arxiv_papers]
    /\ tlog = <<>>

NextTransform ==
    \/ TransformBegin
    \/ NothingNew
    \/ Query
    \/ TestRaises
    \/ TestPasses
    \/ UploadData
    \/ UploadDataRaises
    \/ SaveTransformState
    \/ SyncMetadata

SpecTransform == InitTransform /\ [][NextTransform]_vars

(***************************************************************************)
(* ingest/papers.py.  fetch_category_batch answers with the papers of the  *)
(* category from start on, max_results at most; run() walks the pending    *)
(* categories, saves the raw file of a category that brought papers and    *)
(* marks the category completed.                                           *)
(***************************************************************************)
Max(a, b) == IF a >= b THEN a ELSE b

BatchOf(size, from) == Min(BATCH_SIZE, Max(0, size - from))

Pending(done) == SelectSeq(ALL_CATEGORIES, LAMBDA c : c \notin done)

CategoryGone ==
    /\ completed' = {}
    /\ pending' = <<>>
    /\ category' = NoCategory
    /\ all_papers' = 0
    /\ start_index' = 0

CatRunBegin ==
    /\ cpc = "idle"
    /\ cruns < MaxRuns
    /\ Pending(arxiv_state) # <<>>
    /\ cruns' = cruns + 1
    /\ completed' = arxiv_state
    /\ pending' = Pending(arxiv_state)
    /\ cpc' = "for"
    /\ UNCHANGED <<feed, arxiv_state, raw_saved, category, all_papers, start_index>>
    /\ UNCHANGED <<harvestv, transformv, parserv>>

CatRunReset ==
    /\ cpc = "idle"
    /\ cruns < MaxRuns
    /\ Pending(arxiv_state) = <<>>
    /\ cruns' = cruns + 1
    /\ pending' = ALL_CATEGORIES
    /\ completed' = {}
    /\ arxiv_state' = {}
    /\ cpc' = "for"
    /\ UNCHANGED <<feed, raw_saved, category, all_papers, start_index>>
    /\ UNCHANGED <<harvestv, transformv, parserv>>

CatNext ==
    /\ cpc = "for"
    /\ pending # <<>>
    /\ category' = Head(pending)
    /\ pending' = Tail(pending)
    /\ all_papers' = 0
    /\ start_index' = 0
    /\ cpc' = "while"
    /\ UNCHANGED <<feed, arxiv_state, raw_saved, cruns, completed>>
    /\ UNCHANGED <<harvestv, transformv, parserv>>

CatDone ==
    /\ cpc = "for"
    /\ pending = <<>>
    /\ cpc' = "idle"
    /\ CategoryGone
    /\ UNCHANGED <<feed, arxiv_state, raw_saved, cruns>>
    /\ UNCHANGED <<harvestv, transformv, parserv>>

CatFetch ==
    /\ cpc = "while"
    /\ start_index < MAX_PER_CATEGORY
    /\ LET papers == BatchOf(feed[category], start_index) IN
         /\ all_papers' = all_papers + papers
         /\ start_index' = IF papers = BATCH_SIZE THEN start_index + BATCH_SIZE ELSE start_index
         /\ cpc' = IF papers = BATCH_SIZE THEN "while" ELSE "store"
    /\ UNCHANGED <<feed, arxiv_state, raw_saved, cruns, completed, pending, category>>
    /\ UNCHANGED <<harvestv, transformv, parserv>>

CatFetchRaises ==
    /\ cpc = "while"
    /\ start_index < MAX_PER_CATEGORY
    /\ cpc' = "idle"
    /\ CategoryGone
    /\ UNCHANGED <<feed, arxiv_state, raw_saved, cruns>>
    /\ UNCHANGED <<harvestv, transformv, parserv>>

CatLoopEnd ==
    /\ cpc = "while"
    /\ start_index >= MAX_PER_CATEGORY
    /\ cpc' = "store"
    /\ UNCHANGED <<feed, arxiv_state, raw_saved, cruns, completed, pending, category,
                   all_papers, start_index>>
    /\ UNCHANGED <<harvestv, transformv, parserv>>

CatStore ==
    /\ cpc = "store"
    /\ raw_saved' = IF all_papers > 0 THEN [raw_saved EXCEPT ![category] = all_papers]
                    ELSE raw_saved
    /\ cpc' = "mark"
    /\ UNCHANGED <<feed, arxiv_state, cruns, completed, pending, category, all_papers,
                   start_index>>
    /\ UNCHANGED <<harvestv, transformv, parserv>>

CatMark ==
    /\ cpc = "mark"
    /\ completed' = completed \cup {category}
    /\ arxiv_state' = completed'
    /\ cpc' = "for"
    /\ UNCHANGED <<feed, raw_saved, cruns, pending, category, all_papers, start_index>>
    /\ UNCHANGED <<harvestv, transformv, parserv>>

InitCategories ==
    /\ HarvestInit
    /\ chain = ExampleChain
    /\ cloud = FALSE
    /\ TransformAtRest
    /\ ParserAtRest
    /\ feed \in [Categories -> CategorySizes]
    /\ arxiv_state = {}
    /\ raw_saved = [c \in Categories |-> NoFile]
    /\ cruns = 0
    /\ cpc = "idle"
    /\ completed = {}
    /\ pending = <<>>
    /\ category = NoCategory
    /\ all_papers = 0
    /\ start_index = 0

NextCategories ==
    \/ CatRunBegin
    \/ CatRunReset
    \/ CatNext
    \/ CatDone
    \/ CatFetch
    \/ CatFetchRaises
    \/ CatLoopEnd
    \/ CatStore
    \/ CatMark

SpecCategories == InitCategories /\ [][NextCategories]_vars


(***************************************************************************)
(* parse_arxiv_record() and the loop of fetch_batch() that calls it on     *)
(* every record element of an answer and keeps the truthy results.         *)
(***************************************************************************)
FindText(elem, default) == IF elem.present THEN elem.text ELSE default

Replace(text, old) == SelectSeq(text, LAMBDA part : part # old)

NoRecord == [none |-> TRUE, id |-> PyNone, title |-> PyNone]

ArxivId(identifier) ==
    IF identifier # <<>> THEN PyStr(Replace(identifier, OAI_PREFIX)) ELSE PyNone

parse_keeps_deleted(record_elem) ==
    IF ~record_elem.header THEN NoRecord
    ELSE [none |-> FALSE,
          id |-> ArxivId(FindText(record_elem.identifier, <<>>)),
          title |-> IF record_elem.metadata THEN PyStr(<<"title">>) ELSE PyNone]

parse_arxiv_record(record_elem) ==
    IF ~record_elem.header THEN NoRecord
    ELSE IF record_elem.status = "deleted" THEN NoRecord
    ELSE [none |-> FALSE,
          id |-> ArxivId(FindText(record_elem.identifier, <<>>)),
          title |-> IF record_elem.metadata THEN PyStr(<<"title">>) ELSE PyNone]

Truthy(record) == ~record.none

ParseBegin ==
    /\ ppc = "idle"
    /\ cursor' = 0
    /\ parsed' = <<>>
    /\ origin' = <<>>
    /\ ppc' = "loop"
    /\ UNCHANGED record_elems
    /\ UNCHANGED <<harvestv, transformv, categoryv>>

ParseKeep ==
    /\ ppc = "loop"
    /\ cursor < Len(record_elems)
    /\ Truthy(parse_arxiv_record(record_elems[cursor + 1]))
    /\ parsed' = Append(parsed, parse_arxiv_record(record_elems[cursor + 1]))
    /\ origin' = Append(origin, cursor + 1)
    /\ cursor' = cursor + 1
    /\ UNCHANGED <<record_elems, ppc>>
    /\ UNCHANGED <<harvestv, transformv, categoryv>>

ParseSkip ==
    /\ ppc = "loop"
    /\ cursor < Len(record_elems)
    /\ ~Truthy(parse_arxiv_record(record_elems[cursor + 1]))
    /\ cursor' = cursor + 1
    /\ UNCHANGED <<record_elems, parsed, origin, ppc>>
    /\ UNCHANGED <<harvestv, transformv, categoryv>>

ParseEnd ==
    /\ ppc = "loop"
    /\ cursor = Len(record_elems)
    /\ ppc' = "returned"
    /\ UNCHANGED <<record_elems, cursor, parsed, origin>>
    /\ UNCHANGED <<harvestv, transformv, categoryv>>

InitParse ==
    /\ HarvestInit
    /\ chain = ExampleChain
    /\ cloud = FALSE
    /\ TransformAtRest
    /\ CategoriesAtRest
    /\ record_elems \in Answers
    /\ cursor = 0
    /\ parsed = <<>>
    /\ origin = <<>>
    /\ ppc = "idle"

NextParse ==
    \/ ParseBegin
    \/ ParseKeep
    \/ ParseSkip
    \/ ParseEnd

SpecParse == InitParse /\ [][NextParse]_vars

TypeOK ==
    /\ chain \in Chains
    /\ pc \in {"idle", "validate", "run_begin", "check", "fetch", "get", "backoff",
               "busy_wait", "write", "save", "rate_sleep", "except", "fatal_upload",
               "final_upload", "raise", "return", "main_exit"}
    /\ exit_code \in {NoExit, EXIT_OK, EXIT_FAILURE, EXIT_CONTINUE}
    /\ elapsed \in 0..GH_ACTIONS_MAX_RUN_SECONDS
    /\ attempt \in 0..(MAX_RETRIES - 1)
    /\ state.resumption_token \in 0..Len(chain)

(***************************************************************************)
(* Vocabulary of the properties.                                           *)
(***************************************************************************)
Range(seq) == {seq[i] : i \in 1..Len(seq)}

Occurrences(seq, r) == Cardinality({i \in 1..Len(seq) : seq[i] = r})

IsPrefix(a, b) == Len(a) <= Len(b) /\ SubSeq(b, 1, Len(a)) = a

Positions(e) == {i \in 1..Len(log) : log[i].ev = e}

Count(e) == Cardinality(Positions(e))

RECURSIVE SumWritten(_)
SumWritten(n) ==
    IF n = 0 THEN 0
    ELSE SumWritten(n - 1) + (IF log[n].ev = "write" THEN log[n].tok ELSE 0)

LastRequest == log[CHOOSE i \in Positions("fetch_batch") : \A j \in Positions("fetch_batch") : j <= i].tok

FetchPcs == {"fetch", "get", "backoff", "busy_wait"}

Ended == pc = "idle" /\ exit_code # NoExit

HarvestRan == log # <<>> /\ log[1].ev = "fetch_batch"

HarvestEnded == Ended /\ HarvestRan

Returned == HarvestEnded /\ log[Len(log)].ev = "return"

Raised == Ended /\ log # <<>> /\ log[Len(log)].ev = "raise"

StartToken == StateGet(start.state, "resumption_token", None)

(***************************************************************************)
(* C1  Resumability.  A run that finds a token in the checkpoint sends     *)
(* that token with its first request, the artifact it found holding        *)
(* exactly the batches before the one the token asks for; and every run    *)
(* that ends Done, however many interrupted runs came before it, leaves    *)
(* in the artifact exactly the records one uninterrupted run produces.     *)
(***************************************************************************)
C1_Resumable ==
    /\ (HarvestRan /\ StartToken # None) =>
          /\ log[1] = Ev("fetch_batch", StartToken)
          /\ start.file = PagesUpTo(chain, StartToken)
          /\ (Len(log) >= 2 /\ log[2].ev = "fetched") => log[2].tok = StartToken + 1
    /\ (HarvestEnded /\ outcome = "done") => file = AllRecords(chain)

C1_Witness ==
    /\ HarvestEnded
    /\ outcome = "done"
    /\ start.after \in {"budget", "transient"}
    /\ StartToken # None
    /\ start.file # <<>>
    /\ Len(file) > Len(start.file)

(***************************************************************************)
(* C2  Idempotence.  A run started after a run that ended Done, the        *)
(* upstream corpus unchanged and the server answering every request it     *)
(* gets, ends Done with the checkpoint and the artifact as it found them.  *)
(***************************************************************************)
C2_SecondRunIsNoOp ==
    (HarvestEnded /\ start.after = "done" /\ Count("fetch_batch") = Count("fetched")) =>
        /\ state = start.state
        /\ file = start.file
        /\ outcome = "done"

(***************************************************************************)
(* C3  Exactly-once accounting.  After any sequence of runs that ended by  *)
(* budget exhaustion, Transient error or completion, every record that a   *)
(* run fetched and checkpointed is in the artifact once, and no record is  *)
(* in the artifact twice.                                                  *)
(***************************************************************************)
C3_ExactlyOnce ==
    (HarvestEnded /\ clean) =>
        /\ \A r \in confirmed : Occurrences(file, r) = 1
        /\ \A r \in Range(file) : Occurrences(file, r) = 1

(***************************************************************************)
(* C4  A save after every batch, before the next request.  Whenever run()  *)
(* is about to send or is sending a request, every batch fetched so far    *)
(* in the run has been saved: the checkpoint holds the token about to be   *)
(* sent and the counts of the batches done.  In every state at most one    *)
(* fetched batch is not yet in the checkpoint.                             *)
(***************************************************************************)
C4_SavedBeforeNextRequest ==
    /\ (pc \in FetchPcs /\ Count("fetched") >= 1) =>
          /\ state = Checkpoint(resumption_token, total_harvested, batch_num - 1)
          /\ Count("save_state") = Count("fetched")
    /\ \A i \in Positions("fetched"), j \in Positions("fetch_batch") :
          i < j => \E k \in Positions("save_state") :
                      /\ i < k
                      /\ k < j
                      /\ log[k].tok = TokenOf(chain, log[i].tok)
    /\ (pc \notin {"idle", "validate", "run_begin", "main_exit"} /\ outcome = "running") =>
          Count("fetched") - Count("save_state") \in {0, 1}

C4_Witness ==
    /\ pc = "get"
    /\ Count("fetched") = 2
    /\ Count("save_state") = 2
    /\ total_harvested >= 1

C6_NeverLosesConfirmed ==
    HarvestEnded =>
        /\ confirmed \subseteq Range(file)
        /\ cloud => confirmed \subseteq Range(r2)

(***************************************************************************)
(* C7  Exit contract.  The original statement: code 2 exactly when run()   *)
(* returned True, code 0 only when the harvest is caught up, another       *)
(* code when an exception escaped.                                         *)
(***************************************************************************)
C7_ExitContract ==
    Ended =>
        /\ exit_code = EXIT_CONTINUE <=> (Returned /\ outcome \in {"budget", "transient"})
        /\ exit_code = EXIT_OK => outcome = "done"
        /\ Raised => exit_code \notin {EXIT_OK, EXIT_CONTINUE}

(***************************************************************************)
(* C7 as amended.  Code 2 exactly when run() returned True (budget or      *)
(* Transient error); code 0 only when the run of this invocation returned  *)
(* after the source was exhausted, or when the invocation skipped the      *)
(* harvest (--transform-only); another code when an exception escaped.     *)
(***************************************************************************)
C7_ExitContractAmended ==
    Ended =>
        /\ exit_code = EXIT_CONTINUE <=> (Returned /\ outcome \in {"budget", "transient"})
        /\ exit_code = EXIT_OK =>
              \/ Returned /\ outcome = "done"
              \/ args.transform_only /\ ~HarvestRan
        /\ Raised => exit_code \notin {EXIT_OK, EXIT_CONTINUE}

C7_Witness ==
    /\ Ended
    /\ exit_code = EXIT_CONTINUE
    /\ outcome = "budget"
    /\ state.resumption_token # None

(***************************************************************************)
(* C8  The budget is looked at between batches and nowhere else.  At the   *)
(* head of the loop with the budget used up the run calls fetch_batch no   *)
(* more, sets the continuation flag and goes to the final upload; a run    *)
(* stops for the budget from no other place; a fetch under way goes on to  *)
(* its own result whatever the clock says; and a run stopped by the        *)
(* budget returns True.                                                    *)
(***************************************************************************)
C8_BudgetStep ==
    /\ (pc = "check" /\ elapsed >= GH_ACTIONS_MAX_RUN_SECONDS) =>
          /\ pc' = "final_upload"
          /\ needs_continuation'
          /\ outcome' = "budget"
          /\ log' = log
    /\ (outcome' = "budget" /\ outcome # "budget") =>
          /\ pc = "check"
          /\ elapsed >= GH_ACTIONS_MAX_RUN_SECONDS
    /\ (pc \in FetchPcs /\ elapsed' >= GH_ACTIONS_MAX_RUN_SECONDS) =>
          pc' \in FetchPcs \cup {"write", "except"}
    /\ (pc \notin {"idle", "validate", "run_begin"} /\ outcome = "budget") =>
          pc' \notin FetchPcs

C8_BudgetOnlyBetweenBatches ==
    /\ [][C8_BudgetStep]_vars
    /\ []((HarvestEnded /\ outcome = "budget") => (Returned /\ main_flag /\ exit_code = EXIT_CONTINUE))

C8_Witness ==
    /\ HarvestEnded
    /\ outcome = "budget"
    /\ Count("fetched") >= 1
    /\ Count("fetch_batch") = Count("fetched")

(***************************************************************************)
(* C9  Transient error.  A run that fetch_batch left with a Transient      *)
(* error has called fetch_batch once for the failed batch, has saved the   *)
(* token of the failed request with the record count and the batch count   *)
(* of the batches done, holds no record of the failed batch in the         *)
(* artifact, and returns True.                                             *)
(***************************************************************************)
C9_TransientCheckpointsAndDefers ==
    (HarvestEnded /\ outcome = "transient") =>
        /\ Count("fetch_batch") = Count("fetched") + 1
        /\ state = Checkpoint(LastRequest,
                              StateGet(start.state, "total_harvested", 0) + SumWritten(Len(log)),
                              StateGet(start.state, "batch_num", 0) + Count("fetched"))
        /\ file = PagesUpTo(chain, LastRequest)
        /\ Returned
        /\ main_flag
        /\ exit_code = EXIT_CONTINUE

C9_Witness ==
    /\ HarvestEnded
    /\ outcome = "transient"
    /\ Count("fetched") >= 1
    /\ chain[PageOf(LastRequest)] >= 1
    /\ file # <<>>

(***************************************************************************)
(* C10  Fatal error.  A run that fetch_batch left with a Fatal error has   *)
(* called fetch_batch once for the failed batch and then, in this order,   *)
(* saved the checkpoint (token of the failed request, counts of the        *)
(* batches done), called upload_raw_data on the artifact as it is, and     *)
(* raised; it returned no flag.                                            *)
(***************************************************************************)
C10_FatalSavesUploadsRaises ==
    (Ended /\ HarvestRan /\ outcome = "fatal") =>
        /\ Count("fetch_batch") = Count("fetched") + 1
        /\ Len(log) >= 4
        /\ log[Len(log) - 3].ev = "fetch_batch"
        /\ log[Len(log) - 2] = Ev("save_state", LastRequest)
        /\ log[Len(log) - 1].ev = "upload_raw_data"
        /\ log[Len(log)].ev = "raise"
        /\ state = Checkpoint(LastRequest,
                              StateGet(start.state, "total_harvested", 0) + SumWritten(Len(log)),
                              StateGet(start.state, "batch_num", 0) + Count("fetched"))
        /\ Count("return") = 0
        /\ ~main_flag
        /\ exit_code = EXIT_FAILURE
        /\ cloud => (r2_exists /\ r2 = file)
        /\ ~cloud => ~r2_exists

C10_Witness ==
    /\ Ended
    /\ HarvestRan
    /\ outcome = "fatal"
    /\ cloud
    /\ Count("fetched") >= 1
    /\ r2 # <<>>

(***************************************************************************)
(* Vocabulary of the properties about fetch_batch.                         *)
(***************************************************************************)
RequestSentBefore == Count("fetched") >= 1 \/ attempt >= 1 \/ busies >= 1

(***************************************************************************)
(* C11  Three seconds between requests.  Whenever run() is about to send   *)
(* a request that is not the first of the run, at least 3 seconds of       *)
(* sleep lie between it and the request before, whatever that one brought. *)
(***************************************************************************)
C11_ThreeSecondsApart ==
    (pc = "get" /\ RequestSentBefore) => slept >= 3

(***************************************************************************)
(* C12  Server busy.  A busy answer makes fetch_batch sleep for the        *)
(* Retry-After header, 30 seconds without one, and call itself with the    *)
(* same token: the call starts with a full set of transport attempts, and  *)
(* a Transient error is raised only by the third transport failure in a    *)
(* row, never by a busy answer.                                            *)
(***************************************************************************)
C12_BusyStep ==
    /\ pc = "busy_wait" =>
          /\ pc' = "fetch"
          /\ slept' = slept + retry_after
          /\ resumption_token' = resumption_token
          /\ log' = log
          /\ error' = error
    /\ (pc = "fetch" /\ busies >= 1) =>
          /\ pc' = "get"
          /\ attempt' = 0
          /\ resumption_token' = resumption_token
    /\ (error' = "transient" /\ error # "transient") =>
          /\ response' = "transport"
          /\ attempt = 2
          /\ Len(sleeps) = 2

C12_BusyRetriesSameRequest ==
    /\ [](pc = "busy_wait" =>
            /\ response = "busy"
            /\ error = "none"
            /\ retry_after = (IF retry_header = NoHeader THEN 30 ELSE retry_header))
    /\ [][C12_BusyStep]_vars

C12_Witness ==
    /\ pc = "get"
    /\ busies = 1
    /\ fails = 4
    /\ attempt = 2
    /\ error = "none"

C14_SuccessOnThirdAttempt ==
    (pc = "write" /\ fails = 2 /\ busies = 0) =>
        /\ records = RecordsOf(chain, PageOf(resumption_token))
        /\ next_token = TokenOf(chain, PageOf(resumption_token))
        /\ sleeps = <<30, 60>>
        /\ error = "none"

C14_Witness ==
    /\ pc = "write"
    /\ fails = 2
    /\ busies = 0
    /\ Len(records) >= 1
    /\ sleeps = <<30, 60>>

(***************************************************************************)
(* C15  No records match.  An answer carrying the OAI-PMH error            *)
(* noRecordsMatch makes fetch_batch return an empty list, which run()      *)
(* writes and checkpoints as a batch; any other error code makes it raise  *)
(* the Fatal error.                                                        *)
(***************************************************************************)
C15_Step ==
    /\ (pc = "get" /\ response' = "noRecordsMatch") =>
          /\ pc' = "write"
          /\ records' = <<>>
          /\ error' = "none"
    /\ (pc = "get" /\ response' = "badResumptionToken") =>
          /\ pc' = "except"
          /\ error' = "fatal"

C15_NoRecordsMatchIsEmpty == [][C15_Step]_vars

(***************************************************************************)
(* C16  Pagination.  A run that starts without a token sends its first     *)
(* request without one; every later call of fetch_batch carries the token  *)
(* that came with the page before; no call follows a page that came        *)
(* without a token; and when such a run ends Done it has fetched every     *)
(* page once, returns False, and the artifact holds the records of the     *)
(* pages in page order (4 records for pages of 3 and 1).                   *)
(***************************************************************************)
C16_FollowsTokenChain ==
    /\ (HarvestRan /\ StartToken = None) => log[1] = Ev("fetch_batch", None)
    /\ \A j \in 2..Len(log) :
          log[j].ev = "fetch_batch" =>
              /\ j >= 5
              /\ log[j - 4].ev = "fetch_batch"
              /\ log[j - 3].ev = "fetched"
              /\ log[j - 3].tok = PageOf(log[j - 4].tok)
              /\ log[j].tok = TokenOf(chain, log[j - 3].tok)
              /\ log[j].tok # None
    /\ \A k \in 1..Len(log) :
          (log[k].ev = "fetched" /\ TokenOf(chain, log[k].tok) = None) =>
              \A j \in (k + 1)..Len(log) : log[j].ev # "fetch_batch"
    /\ (HarvestEnded /\ StartToken = None /\ outcome = "done") =>
          /\ Count("fetched") = Len(chain)
          /\ file = AllRecords(chain)
          /\ ~main_flag
          /\ exit_code = EXIT_OK
          /\ chain = ExampleChain => file = <<<<1, 1>>, <<1, 2>>, <<1, 3>>, <<2, 1>>>>

C16_Witness ==
    /\ HarvestEnded
    /\ StartToken = None
    /\ outcome = "done"
    /\ chain = ExampleChain
    /\ Len(file) = 4
    /\ Count("fetch_batch") = 2


(***************************************************************************)
(* C17  Date-range completeness.  After a harvest run that started from    *)
(* nothing and ended Done, the checkpoint oai_harvest holds under          *)
(* fetched_dates every date from the epoch date to today minus 2 days, so  *)
(* that the transform finds all of them in fetched minus transformed.      *)
(***************************************************************************)
C17_FetchedDatesComplete ==
    (HarvestEnded /\ StartToken = None /\ outcome = "done") =>
        /\ fetched_dates = DatesDue
        /\ NewDates(fetched_dates, transformed_dates) = DatesDue \ transformed_dates

(***************************************************************************)
(* C18  No duplicate partitions.  Every category the checkpoint arxiv      *)
(* lists as completed has its raw file in storage, and a category enters   *)
(* the list only when its file is there.                                   *)
(***************************************************************************)
C18_CompletedArePresent ==
    \A c \in arxiv_state : raw_saved[c] # NoFile

(***************************************************************************)
(* C19  Fetched minus transformed.  The transform works on the dates of    *)
(* fetched_dates that are not in transformed_dates and on no other; with   *)
(* no such date it changes nothing; a call that succeeds leaves            *)
(* transformed_dates as it was plus the dates worked on; transformed_dates *)
(* never loses a date, and the call after a successful one is a no-op.     *)
(***************************************************************************)
C19_Entry(i) ==
    LET e == tlog[i] IN
    /\ e.out = "noop" =>
          /\ \A d \in fetched_dates : d \in e.before
          /\ e.after = e.before
          /\ e.after_table = e.before_table
    /\ e.out = "done" =>
          /\ e.dates = {d \in fetched_dates : d \notin e.before}
          /\ e.dates # {}
          /\ e.after = e.before \cup e.dates
          /\ \A d \in e.dates : d \in e.after_table
          /\ i < Len(tlog) =>
                /\ tlog[i + 1].out = "noop"
                /\ tlog[i + 1].after = e.after

C19_DrivenByDifference ==
    /\ tpc \in {"test", "upload", "save", "sync"} =>
          /\ table = {d \in fetched_dates : d \notin tstart.transformed_dates}
          /\ table # {}
    /\ \A d \in tstart.transformed_dates : d \in transformed_dates
    /\ \A i \in 1..Len(tlog) : C19_Entry(i)

C19_Witness ==
    /\ tpc = "idle"
    /\ Len(tlog) = 2
    /\ tlog[1].out = "done"
    /\ tlog[2].out = "noop"
    /\ tlog[1].before # {}
    /\ tlog[1].dates # fetched_dates
    /\ transformed_dates = tlog[1].before \cup tlog[1].dates

(***************************************************************************)
(* C20  Validation failure.  When test() raises on the table, nothing is   *)
(* uploaded and transformed_dates stays as it was, so the next call works  *)
(* on the same dates; transformed_dates changes only in the step after     *)
(* test() has passed and the table has been merged into arxiv_papers.      *)
(***************************************************************************)
C20_Step ==
    /\ (tpc = "test" /\ \E d \in table : d \in bad_dates) =>
          /\ tpc' = "idle"
          /\ arxiv_papers' = arxiv_papers
          /\ transformed_dates' = transformed_dates
          /\ tlog' = Append(tlog, tlog'[Len(tlog')])
          /\ tlog'[Len(tlog')].out = "raised"
    /\ transformed_dates' # transformed_dates =>
          /\ tpc = "save"
          /\ \A d \in table : d \notin bad_dates
          /\ \A d \in table : d \in arxiv_papers
          /\ transformed_dates' = transformed_dates \cup table

C20_ValidationHalts ==
    /\ [][C20_Step]_vars
    /\ [](\A i \in 1..Len(tlog) :
            tlog[i].out = "raised" =>
                /\ tlog[i].after = tlog[i].before
                /\ tlog[i].after_table = tlog[i].before_table
                /\ tlog[i].dates # {}
                /\ i < Len(tlog) => tlog[i + 1].dates = tlog[i].dates)

C20_Witness ==
    /\ tpc = "idle"
    /\ Len(tlog) = 2
    /\ tlog[1].out = "raised"
    /\ tlog[2].out = "raised"
    /\ tlog[2].dates = tlog[1].dates
    /\ transformed_dates = tlog[1].before
    /\ \E d \in tlog[1].dates : d \notin bad_dates


(***************************************************************************)
(* C21  Deleted entries.  parse_arxiv_record returns no record for an      *)
(* element without a header and for one whose header says deleted, so the  *)
(* list fetch_batch returns, which is what run() writes, holds a record    *)
(* for each of the other elements it has seen, in their order, and for     *)
(* no deleted or header-less one.                                          *)
(***************************************************************************)
Retained(i) == record_elems[i].header /\ record_elems[i].status # "deleted"

C21_DeletedNeverParsed ==
    /\ \A i \in 1..Len(record_elems) :
          ~Retained(i) => parse_arxiv_record(record_elems[i]).none
    /\ \A k \in 1..Len(origin) : Retained(origin[k])
    /\ Len(parsed) = Len(origin)
    /\ Len(parsed) = Cardinality({i \in 1..cursor : Retained(i)})

C21_Witness ==
    /\ ppc = "returned"
    /\ Len(record_elems) = 2
    /\ record_elems[1].header
    /\ record_elems[1].status = "deleted"
    /\ Retained(2)
    /\ origin = <<2>>

(***************************************************************************)
(* C22  No null identifier.  Every record in the list fetch_batch returns  *)
(* has an id that is not None: an element whose header has no identifier,  *)
(* or an empty one, gives no record.                                       *)
(***************************************************************************)
C22_IdNeverNull ==
    \A k \in 1..Len(parsed) : ~parsed[k].id.none


(***************************************************************************)
(* C23  Upload every UPLOAD_INTERVAL_BATCHES batches.  In cloud mode a     *)
(* run that is about to fetch a batch has uploaded the artifact once for   *)
(* every full interval of batches it has written.  The interval is taken   *)
(* on the scale of the chains served (UploadEvery); run() never reads      *)
(* the constant, so its value does not change what run() does.             *)
(***************************************************************************)
C23_UploadsEveryInterval ==
    (cloud /\ pc = "fetch") =>
        Count("upload_raw_data") >= Count("write") \div UploadEvery

(***************************************************************************)
(* C24  Counters match the artifact.  When a harvest run has ended, the    *)
(* checkpoint's total_harvested is the number of records in the artifact   *)
(* and its batch_num the number of batches written to it: the batches the  *)
(* run found there (as many as its start token says; none after opening    *)
(* with 'wb') and those it wrote.                                          *)
(***************************************************************************)
BatchesInArtifact == StartToken + Count("write")

C24_CountersMatchArtifact ==
    HarvestEnded =>
        /\ state.total_harvested = Len(file)
        /\ state.batch_num = BatchesInArtifact


Completed == HarvestEnded /\ outcome = "done" /\ state.has /\ state.resumption_token = None

FetchedABatch == HarvestEnded /\ Count("fetched") >= 1

C26_EventualCompletion ==
    /\ [](HarvestRan => <>Completed)
    /\ []((FetchedABatch /\ state.resumption_token = StartToken) =>
            (StartToken = None /\ outcome = "done"))

(* C26 as stated: eventual completion, and no run that fetched a batch     *)
(* successfully leaves the checkpoint's token where it was at its start.   *)
C26_TokenNeverStays ==
    /\ [](HarvestRan => <>Completed)
    /\ [](FetchedABatch => state.resumption_token # StartToken)

C26_Witness ==
    /\ Completed
    /\ exit_code = EXIT_OK
    /\ StartToken # None
    /\ Len(chain) >= 2
    /\ Len(file) >= 2

=============================================================================
